---- MODULE Spec2Model ----
(***************************************************************************)
(* A model of daily_paper: the arXiv result stream (AT_Arxiv.py:           *)
(* compare_time, ArxivClient.results), the ArxivTool run around it         *)
(* (_config, __call__, save_pdf) and the conference scraper (AT_CVpaper.py *)
(* CVP.get_url_info, CVP.download_pdf).                                    *)
(***************************************************************************)
EXTENDS Integers, Sequences, FiniteSets, TLC

(***************************************************************************)
(* Bounds of the model.                                                    *)
(***************************************************************************)
\* calendar dates are 1 .. MaxDay
MaxDay == 4
\* a bounded max_results is one of 0 .. MaxResults
MaxResults == 3
\* the initial offset is one of 0 .. MaxOffset
MaxOffset == 1
\* the total-count an API response reports is one of 0 .. MaxTotal
MaxTotal == 3
\* Client.page_size, the nominal page size of the client
PageSize == 2

\* float('inf'), the max_results of a configuration that sets none
Inf == -1

VARIABLES
    \* ---- ArxivTool / ArxivClient.results
    cfg,            \* self.cfg: max_results, offset, s_time, e_time, xlsx_list, markdown_list
    pc,             \* position of the run
    err,            \* the exception that ended the run, "" when none
    offset,         \* results: offset, the cursor of the next page request
    total_results,  \* results: total_results
    first_page,     \* results: first_page
    npage,          \* len(feed.entries) of the page being scanned
    idx,            \* entries of that page the for loop has taken
    requests,       \* log of the page requests issued, each with its response's size
    yielded,        \* number of entries the generator has yielded
    \* ---- history of the stream (SpecH only)
    scanned         \* the entries the for loop has taken, each with what became of it

    \* ---- a call of compare_time
VARIABLES
    arg_t,          \* the argument t
    arg_start,      \* the argument t_start
    arg_end,        \* the argument t_end
    arg_strp,       \* the argument strp
    ret             \* "" before the call returns, then "True", "False" or the exception raised

    \* ---- ArxivTool.save_pdf
VARIABLES
    info,           \* the export records save_pdf is given
    with_source,    \* self.cfg["with_source"]
    pdf_dir,        \* the names of the files in self.cfg["pdf_dir"]
    run,            \* 1 in the first invocation of save_pdf, 2 in the second
    pos,            \* index in info of the record the for loop is at
    step,           \* "pdf" before the record's PDF download, "src" before its source download
    spc,            \* "idle", "loop", "done" or "raised"
    downloads,      \* the urls urlretrieve was called with in this invocation
    attempted       \* the indices of the records a download was called for in this invocation
    \* ---- CVP
VARIABLES
    link_list,      \* get_url_info: the links found in the page
    name_list,      \* get_url_info: the titles found in the page
    info_dict,      \* self.info_dict, in insertion order: <<url, file_name>> pairs
    dst,            \* the names of the files in self.dst
    dst0,           \* the names of the files in self.dst before download_pdf
    cpos,           \* index in info_dict of the item the for loop is at
    cpc,            \* "idle", "new", "download" or "done"
    failed          \* whether a download has failed

pdfVars == <<info, with_source, pdf_dir, run, pos, step, spc, downloads, attempted>>

cvpVars == <<link_list, name_list, info_dict, dst, dst0, cpos, cpc, failed>>

streamVars == <<cfg, pc, err, offset, total_results, first_page, npage, idx, requests, yielded>>

compareVars == <<arg_t, arg_start, arg_end, arg_strp, ret>>

vars == <<streamVars, scanned, compareVars, pdfVars, cvpVars>>

(***************************************************************************)
(* Values: None, '%Y-%m-%d' strings, time.struct_time.                     *)
(* A struct_time compares as the tuple (date, time of day, ..., tm_isdst): *)
(* tm_wday and tm_yday are functions of the date and never decide.         *)
(* A string is the text of date `day`, or text that is no date (day = 0).  *)
(***************************************************************************)
None == [k |-> "none", day |-> 0, tod |-> 0, dst |-> 0]

Str(d) == [k |-> "str", day |-> d, tod |-> 0, dst |-> 0]

Struct(d, t, i) == [k |-> "struct_time", day |-> d, tod |-> t, dst |-> i]

\* Python truthiness of None / a non-empty string / a struct_time
Truthy(v) == v.k # "none"

\* tuple order of two struct_time values, a <= b
StructLeq(a, b) ==
    \/ a.day < b.day
    \/ a.day = b.day /\ a.tod < b.tod
    \/ a.day = b.day /\ a.tod = b.tod /\ a.dst <= b.dst

\* arithmetic on max_results, which may be float('inf')
Lt(a, b) == IF a = Inf THEN FALSE ELSE IF b = Inf THEN TRUE ELSE a < b

MinX(a, b) == IF Lt(a, b) THEN a ELSE b

Sub(a, b) == IF a = Inf THEN Inf ELSE a - b

(***************************************************************************)
(* strp_time and compare_time.                                             *)
(***************************************************************************)
\* time.strptime raises ValueError on text that is no date
strp_time_raises(t) == t.k = "str" /\ t.day = 0

\* time.strptime(t, '%Y-%m-%d'): midnight of the date, tm_isdst = -1
strp_time(t) == IF t.k = "str" THEN Struct(t.day, 0, -1) ELSE t

\* ValueError from one of the three strp_time calls
compare_time_value_error(t, t_start, t_end, strp) ==
    strp /\ (strp_time_raises(t) \/ strp_time_raises(t_start) \/ strp_time_raises(t_end))

\* AssertionError from one of the two isinstance asserts
compare_time_assert_error(t, t_start, t_end, strp) ==
    LET s1 == IF strp THEN strp_time(t_start) ELSE t_start
        e1 == IF strp THEN strp_time(t_end) ELSE t_end
    IN  \/ Truthy(s1) /\ s1.k # "struct_time"
        \/ Truthy(e1) /\ e1.k # "struct_time"

\* compare_time with the two one-sided branches exchanged
compare_time_swapped(t, t_start, t_end, strp) ==
    LET t1 == IF strp THEN strp_time(t) ELSE t
        s1 == IF strp THEN strp_time(t_start) ELSE t_start
        e1 == IF strp THEN strp_time(t_end) ELSE t_end
    IN  IF s1 = None /\ e1 = None THEN TRUE
        ELSE IF s1 = None THEN StructLeq(e1, t1)
        ELSE IF e1 = None THEN StructLeq(t1, s1)
        ELSE StructLeq(t1, e1) /\ StructLeq(s1, t1)

compare_time(t, t_start, t_end, strp) ==
    LET t1 == IF strp THEN strp_time(t) ELSE t
        s1 == IF strp THEN strp_time(t_start) ELSE t_start
        e1 == IF strp THEN strp_time(t_end) ELSE t_end
    IN  IF s1 = None /\ e1 = None THEN TRUE
        ELSE IF s1 = None THEN StructLeq(t1, e1)
        ELSE IF e1 = None THEN StructLeq(s1, t1)
        ELSE StructLeq(t1, e1) /\ StructLeq(s1, t1)

\* the call returns or raises (lines 22-37)
compare_time_call(t, t_start, t_end, strp) ==
    IF compare_time_value_error(t, t_start, t_end, strp) THEN "ValueError"
    ELSE IF compare_time_assert_error(t, t_start, t_end, strp) THEN "AssertionError"
    ELSE IF compare_time(t, t_start, t_end, strp) THEN "True"
    ELSE "False"

(***************************************************************************)
(* ArxivTool._config                                                       *)
(***************************************************************************)
default_list == {"paper_id", "paper_title", "paper_first_author", "paper_all_author",
                 "publish_time", "update_time", "paper_summary", "paper_url", "pdf_url",
                 "comment", "doi", "primary_category", "categories"}

\* the export lists a configuration may give
FieldLists == {<<"paper_id", "paper_title">>, <<"paper_id", "abstract">>}

\* the s_time / e_time a configuration may give
TimeSettings == {None} \cup {Str(d) : d \in 0 .. MaxDay}

Configs == [max_results : (0 .. MaxResults) \cup {Inf},
            offset : 0 .. MaxOffset,
            s_time : TimeSettings,
            e_time : TimeSettings,
            xlsx_list : FieldLists,
            markdown_list : FieldLists]

Range(s) == {s[i] : i \in DOMAIN s}

\* the check of lines 153-154
config_ok(c) == \A f \in Range(c.xlsx_list \o c.markdown_list) : f \in default_list

\* no call of compare_time is under way
CompareIdle ==
    /\ arg_t = None /\ arg_start = None /\ arg_end = None
    /\ arg_strp = FALSE
    /\ ret = ""

\* save_pdf is not running
PdfIdle ==
    /\ info = <<>>
    /\ with_source = FALSE
    /\ pdf_dir = {}
    /\ run = 1
    /\ pos = 1
    /\ step = "pdf"
    /\ spc = "idle"
    /\ downloads = <<>>
    /\ attempted = {}

\* no scraper exists
CvpIdle ==
    /\ link_list = <<>>
    /\ name_list = <<>>
    /\ info_dict = <<>>
    /\ dst = {}
    /\ dst0 = {}
    /\ cpos = 1
    /\ cpc = "idle"
    /\ failed = FALSE

StreamInit ==
    /\ cfg \in Configs
    /\ pc = "new"
    /\ err = ""
    /\ offset = 0
    /\ total_results = 0
    /\ first_page = TRUE
    /\ npage = 0
    /\ idx = 0
    /\ requests = {}
    /\ yielded = 0
    /\ scanned = <<>>

Init == StreamInit /\ CompareIdle /\ PdfIdle /\ CvpIdle

\* ArxivTool.__init__ -> _config
Config ==
    /\ pc = "new"
    /\ IF config_ok(cfg)
       THEN pc' = "ready" /\ err' = err
       ELSE pc' = "raised" /\ err' = "AssertionError"
    /\ UNCHANGED <<cfg, offset, total_results, first_page, npage, idx, requests, yielded>>

\* ArxivTool.__call__ -> format_res -> results -> ArxivClient.results, up to the while
Call ==
    /\ pc = "ready"
    /\ offset' = cfg.offset
    /\ total_results' = cfg.max_results
    /\ first_page' = TRUE
    /\ pc' = "while"
    /\ UNCHANGED <<cfg, err, npage, idx, requests, yielded>>

\* the size the request at `off` asks for (line 54)
page_size(off) == MinX(PageSize, Sub(cfg.max_results, off))

\* total_after without the empty-first-page case
total_after_trusting_api(n, reported) ==
    IF first_page THEN MinX(total_results, reported) ELSE total_results

\* total_results after the page (lines 61-79)
total_after(n, reported) ==
    IF first_page
    THEN IF n = 0 THEN 0 ELSE MinX(total_results, reported)
    ELSE total_results

\* offset_after advancing by the size asked for
offset_after_nominal(n) == offset + page_size(offset)

\* offset after the page (line 81)
offset_after(n) == offset + n

\* the log entry of the request at offset: the response held `n` entries and, on
\* the first page, the total-count `reported`; or the request failed
Request(n, reported, failure) ==
    [cursor |-> offset, size |-> page_size(offset), first |-> first_page,
     failed |-> failure, got |-> n, reported |-> IF first_page THEN reported ELSE 0]

\* one turn of the while loop up to the for: a page of n entries comes back
FetchPage ==
    /\ pc = "while"
    /\ Lt(offset, total_results)
    /\ \E n \in 0 .. page_size(offset), reported \in 0 .. MaxTotal :
        /\ first_page \/ reported = 0
        /\ requests' = requests \cup {Request(n, reported, FALSE)}
        /\ total_results' = total_after(n, reported)
        /\ offset' = offset_after(n)
        /\ npage' = n
        /\ pc' = "scan"
    /\ first_page' = FALSE
    /\ idx' = 0
    /\ UNCHANGED <<cfg, err, yielded>>

\* the page request fails: _parse_feed raises (a transport error, or the parser
\* refusing the page) and nothing in results catches it
FetchRaises ==
    /\ pc = "while"
    /\ Lt(offset, total_results)
    /\ requests' = requests \cup {Request(0, 0, TRUE)}
    /\ pc' = "raised"
    /\ err' = "FetchError"
    /\ UNCHANGED <<cfg, offset, total_results, first_page, npage, idx, yielded>>

\* the while condition fails: the generator is exhausted
WhileExit ==
    /\ pc = "while"
    /\ ~Lt(offset, total_results)
    /\ pc' = "done"
    /\ UNCHANGED <<cfg, err, offset, total_results, first_page, npage, idx, requests, yielded>>

\* what the for loop does with an entry published at struct_time p (lines 85-95)
entry_outcome(p, ok) ==
    IF Truthy(cfg.s_time) \/ Truthy(cfg.e_time)
    THEN IF compare_time_value_error(p, None, cfg.e_time, TRUE) THEN "ValueError"
         ELSE IF ~compare_time(p, None, cfg.e_time, TRUE) THEN "continue"
         ELSE IF compare_time_value_error(p, cfg.s_time, None, TRUE) THEN "ValueError"
         ELSE IF ~compare_time(p, cfg.s_time, None, TRUE) THEN "break"
         ELSE IF ok THEN "yield" ELSE "partial"
    ELSE IF ok THEN "yield" ELSE "partial"

\* the state the for loop leaves for an entry with outcome out
ScanStep(out) ==
    /\ idx' = idx + 1
    /\ yielded' = IF out = "yield" THEN yielded + 1 ELSE yielded
    /\ total_results' = IF out = "break" THEN 0 ELSE total_results
    /\ pc' = IF out = "ValueError" THEN "raised"
             ELSE IF out = "break" THEN "while"
             ELSE "scan"
    /\ err' = IF out = "ValueError" THEN "ValueError" ELSE err

\* the for loop takes the next entry of the page: published on `day` at time `tod`,
\* and Result._from_feed_entry succeeds on it iff ok
ScanEntry(day, tod, ok) ==
    /\ pc = "scan"
    /\ idx < npage
    /\ ScanStep(entry_outcome(Struct(day, tod, 0), ok))
    /\ UNCHANGED <<cfg, offset, first_page, npage, requests>>

\* the page is exhausted: back to the while test
ForExit ==
    /\ pc = "scan"
    /\ idx = npage
    /\ pc' = "while"
    /\ UNCHANGED <<cfg, err, offset, total_results, first_page, npage, idx, requests, yielded>>

\* the entries a page may hold: published on `day`, at midnight (tod = 0) or later
\* in the day (tod = 1); feed timestamps are UTC struct_times, tm_isdst = 0
Entries == [day : 1 .. MaxDay, tod : 0 .. 1, ok : BOOLEAN]

\* the stream
Next ==
    \/ Config /\ UNCHANGED <<scanned, compareVars, pdfVars, cvpVars>>
    \/ Call /\ UNCHANGED <<scanned, compareVars, pdfVars, cvpVars>>
    \/ FetchPage /\ UNCHANGED <<scanned, compareVars, pdfVars, cvpVars>>
    \/ FetchRaises /\ UNCHANGED <<scanned, compareVars, pdfVars, cvpVars>>
    \/ WhileExit /\ UNCHANGED <<scanned, compareVars, pdfVars, cvpVars>>
    \/ ForExit /\ UNCHANGED <<scanned, compareVars, pdfVars, cvpVars>>
    \/ \E e \in Entries : ScanEntry(e.day, e.tod, e.ok) /\ UNCHANGED <<scanned, compareVars, pdfVars, cvpVars>>

Spec == Init /\ [][Next]_vars

\* the stream with the history of the entries it has taken
NextH ==
    \/ Config /\ UNCHANGED <<scanned, compareVars, pdfVars, cvpVars>>
    \/ Call /\ UNCHANGED <<scanned, compareVars, pdfVars, cvpVars>>
    \/ FetchPage /\ UNCHANGED <<scanned, compareVars, pdfVars, cvpVars>>
    \/ FetchRaises /\ UNCHANGED <<scanned, compareVars, pdfVars, cvpVars>>
    \/ WhileExit /\ UNCHANGED <<scanned, compareVars, pdfVars, cvpVars>>
    \/ ForExit /\ UNCHANGED <<scanned, compareVars, pdfVars, cvpVars>>
    \/ \E e \in Entries :
        /\ ScanEntry(e.day, e.tod, e.ok)
        /\ scanned' = Append(scanned, [day |-> e.day,
                                       out |-> entry_outcome(Struct(e.day, e.tod, 0), e.ok)])
        /\ UNCHANGED <<compareVars, pdfVars, cvpVars>>

SpecH == Init /\ [][NextH]_vars

\* a consumer that keeps pulling: the generator always takes its next step
FairSpec == Spec /\ WF_vars(Next)

(***************************************************************************)
(* Claims about the result stream.                                         *)
(***************************************************************************)
WindowActive == Truthy(cfg.s_time) \/ Truthy(cfg.e_time)

WindowParses == ~strp_time_raises(cfg.s_time) /\ ~strp_time_raises(cfg.e_time)

\* the calendar date d lies in the window, both bounds inclusive
DateInWindow(d) ==
    /\ Truthy(cfg.s_time) => cfg.s_time.day <= d
    /\ Truthy(cfg.e_time) => d <= cfg.e_time.day

\* C1: with an active window, an entry the scan takes and that parses is yielded
\* iff its published date d has start <= d <= end, both inclusive, whatever its
\* time of day. (An entry is "partial" when it passed the window and did not
\* parse; one that parses is yielded, skipped by "continue" or stops the stream.)
C1_YieldedIffDateInWindow ==
    (WindowActive /\ WindowParses) =>
        \A i \in DOMAIN scanned :
            /\ scanned[i].out = "yield" => DateInWindow(scanned[i].day)
            /\ DateInWindow(scanned[i].day) => scanned[i].out \in {"yield", "partial"}

\* the window has start <= end when it has both
WindowOrdered ==
    (Truthy(cfg.s_time) /\ Truthy(cfg.e_time)) => cfg.s_time.day <= cfg.e_time.day

\* C2 (rule): once the scan takes an entry published before the window start,
\* the stream is exhausted: that entry is the last one taken, and no page
\* request can follow (total_results = 0 at the while test).
C2_StopAtWindowStart ==
    (WindowActive /\ WindowParses /\ WindowOrdered /\ Truthy(cfg.s_time)) =>
        \A i \in DOMAIN scanned :
            scanned[i].day < cfg.s_time.day =>
                /\ i = Len(scanned)
                /\ scanned[i].out = "break"
                /\ total_results = 0
                /\ pc \in {"while", "done"}
                /\ ~ENABLED FetchPage

\* the stream was served entries dated 4, 3, 1 first, all of them parsable
ExampleServed ==
    /\ cfg.s_time = Str(2) /\ cfg.e_time = Str(4)
    /\ Len(scanned) >= 3
    /\ scanned[1].day = 4 /\ scanned[2].day = 3 /\ scanned[3].day = 1
    /\ \A i \in 1 .. 3 : scanned[i].out # "partial"

\* C2 (example): for entries dated [2023-09-30, 2023-09-20, 2023-09-10] (days 4, 3, 1)
\* and window 2023-09-15 .. 2023-09-30 (days 2 .. 4) the stream yields exactly the
\* first two entries and then stops.
C2_Example ==
    ExampleServed =>
        /\ Len(scanned) = 3
        /\ scanned[1].out = "yield" /\ scanned[2].out = "yield" /\ scanned[3].out = "break"
        /\ yielded = 2
        /\ total_results = 0

\* C2: the early stop at the window start, with its example
C2_EarlyStop == C2_StopAtWindowStart /\ C2_Example

FirstPageEmpty == \E r \in requests : r.first /\ ~r.failed /\ r.got = 0

\* C3: if the first page holds no entry, the total becomes 0 whatever the API
\* reports: nothing is yielded and no second page request is issued.
C3_EmptyFirstPage ==
    FirstPageEmpty =>
        /\ total_results = 0
        /\ yielded = 0
        /\ Cardinality(requests) = 1
        /\ pc \in {"scan", "while", "done"}
        /\ ~ENABLED FetchPage

C3_Witness ==
    /\ pc = "done"
    /\ cfg.max_results = Inf
    /\ \E r \in requests : r.first /\ ~r.failed /\ r.got = 0 /\ r.reported = 1

EmptyLaterPage == \E r \in requests : ~r.first /\ ~r.failed /\ r.got = 0

StreamEndsOnNonEmptyPages == <>(pc \in {"done", "raised"} \/ EmptyLaterPage)

\* C5: a configuration error (unknown export field, unparsable window date) is
\* raised before any network activity: no run with such a configuration issues
\* a page request.
ConfigBad ==
    \/ ~config_ok(cfg)
    \/ strp_time_raises(cfg.s_time)
    \/ strp_time_raises(cfg.e_time)

C5_ConfigErrorBeforeNetwork == ConfigBad => requests = {}

RECURSIVE SumGot(_)
SumGot(S) == IF S = {} THEN 0
             ELSE LET r == CHOOSE x \in S : TRUE IN r.got + SumGot(S \ {r})

\* entries received in the pages requested before r
ReceivedBefore(r) == SumGot({q \in requests : q.cursor < r.cursor})

\* the total the first page made authoritative
AuthoritativeTotal ==
    LET f == CHOOSE r \in requests : r.first IN IF f.got = 0 THEN 0 ELSE f.reported

C10_Cursor == \A r \in requests : r.cursor = cfg.offset + ReceivedBefore(r)

\* C10: every page request is made at cursor = offset + entries received so far and
\* asks for min(pageSize, remaining - cursor) entries, remaining being max_results
\* for the first request and min(max_results, authoritative total) afterwards.
C10_RequestShape ==
    /\ C10_Cursor
    /\ \A r \in requests :
        LET remaining == IF r.first THEN cfg.max_results
                         ELSE MinX(cfg.max_results, AuthoritativeTotal)
        IN  r.size = MinX(PageSize, Sub(remaining, r.cursor))

\* C10 as amended: the size asked for is min(pageSize, max_results - cursor) on
\* every request, the first and the later ones alike.
C10_RequestShapeAmended ==
    /\ C10_Cursor
    /\ \A r \in requests : r.size = MinX(PageSize, Sub(cfg.max_results, r.cursor))

\* a later request after a short first page, the total being below max_results
C10_Witness ==
    /\ cfg.offset = 1
    /\ \E f \in requests : f.first /\ 0 < f.got /\ f.got < f.size
    /\ \E r \in requests : ~r.first /\ r.got > 0
    /\ Lt(AuthoritativeTotal, cfg.max_results)

(***************************************************************************)
(* compare_time on its own: every timestamp against every pair of bounds.  *)
(***************************************************************************)
StructTimes == {Struct(d, t, i) : d \in 1 .. MaxDay, t \in 0 .. 1, i \in {-1, 0}}

DateStrings == {Str(d) : d \in 1 .. MaxDay}

CompareInit ==
    /\ arg_strp \in BOOLEAN
    /\ arg_t \in IF arg_strp THEN StructTimes \cup DateStrings ELSE StructTimes
    /\ arg_start \in IF arg_strp THEN {None} \cup StructTimes \cup DateStrings
                                  ELSE {None} \cup StructTimes
    /\ arg_end \in IF arg_strp THEN {None} \cup StructTimes \cup DateStrings
                                ELSE {None} \cup StructTimes
    /\ ret = ""

\* no stream is running
StreamIdle ==
    /\ cfg = [max_results |-> 0, offset |-> 0, s_time |-> None, e_time |-> None,
              xlsx_list |-> <<>>, markdown_list |-> <<>>]
    /\ pc = "idle"
    /\ err = ""
    /\ offset = 0
    /\ total_results = 0
    /\ first_page = TRUE
    /\ npage = 0
    /\ idx = 0
    /\ requests = {}
    /\ yielded = 0
    /\ scanned = <<>>

CompareCall ==
    /\ ret = ""
    /\ ret' = compare_time_call(arg_t, arg_start, arg_end, arg_strp)
    /\ UNCHANGED <<arg_t, arg_start, arg_end, arg_strp>>

CompareNext == CompareCall /\ UNCHANGED <<streamVars, scanned, pdfVars, cvpVars>>

CompareSpecInit == StreamIdle /\ CompareInit /\ PdfIdle /\ CvpIdle

CompareSpec == CompareSpecInit /\ [][CompareNext]_vars

\* the timestamp a value stands for: a date string is midnight of its date
Timestamp(v) == IF v.k = "str" THEN Struct(v.day, 0, -1) ELSE v

\* the truth value a returned call gave
Returned(b) == ret = (IF b THEN "True" ELSE "False")

\* C8: compare_time returns true when both bounds are absent, t >= t_start when
\* only the start is present, t <= t_end when only the end is present, and
\* t_start <= t <= t_end when both are.
C8_CompareTime ==
    ret # "" =>
        /\ (arg_start = None /\ arg_end = None) => Returned(TRUE)
        /\ (arg_start # None /\ arg_end = None) =>
              Returned(StructLeq(Timestamp(arg_start), Timestamp(arg_t)))
        /\ (arg_start = None /\ arg_end # None) =>
              Returned(StructLeq(Timestamp(arg_t), Timestamp(arg_end)))
        /\ (arg_start # None /\ arg_end # None) =>
              Returned(/\ StructLeq(Timestamp(arg_start), Timestamp(arg_t))
                       /\ StructLeq(Timestamp(arg_t), Timestamp(arg_end)))

\* a call with only the end bound returned False for a timestamp after it
C8_Witness ==
    /\ ret = "False"
    /\ arg_start = None /\ arg_end # None
    /\ arg_t.day > arg_end.day

(***************************************************************************)
(* ArxivTool.save_pdf.  Strings are sequences of characters.               *)
(***************************************************************************)
\* the records save_pdf is given hold at most MaxInfo records
MaxInfo == 2

\* the characters \w matches, among those used here
WordChars == {"a", "b", "1", "2", "_", "UNTITLED"}

\* str.replace(old, new) for one-character old and new
Replace(str, old, new) == [i \in DOMAIN str |-> IF str[i] = old THEN new ELSE str[i]]

\* re.sub(r"[^\w]", "_", str)
SubNonWord(str) == [i \in DOMAIN str |-> IF str[i] \in WordChars THEN str[i] ELSE "_"]

\* '.'.join([a, b, c])
DotJoin(a, b, c) == a \o <<".">> \o b \o <<".">> \o c

\* _get_default_filename(res, extension)
get_default_filename(res, extension) ==
    LET nonempty_title == IF res.paper_title # <<>> THEN res.paper_title ELSE <<"UNTITLED">>
    IN  DotJoin(Replace(res.paper_id, "/", "_"), SubNonWord(nonempty_title), <<extension>>)

\* url.replace('/pdf/', '/src/') on a url given as its path segments
source_url(url) ==
    [i \in DOMAIN url |-> IF url[i] = "pdf" /\ 1 < i /\ i < Len(url) THEN "src" ELSE url[i]]

PaperIds == {<<"1">>, <<"a", "/", "1">>}

PaperTitles == {<<>>, <<"a", " ", "b">>, <<"a", "_", "b">>}

PdfUrls == {<<"arxiv.org", "pdf", "1">>, <<"arxiv.org", "pdf", "2">>}

Records == [paper_id : PaperIds, paper_title : PaperTitles, pdf_url : PdfUrls]

SeqsUpTo(S, n) == UNION {[1 .. k -> S] : k \in 0 .. n}

\* save_pdf is called on an empty pdf_dir
PdfInit ==
    /\ info \in SeqsUpTo(Records, MaxInfo)
    /\ with_source \in BOOLEAN
    /\ pdf_dir = {}
    /\ run = 1
    /\ pos = 1
    /\ step = "pdf"
    /\ spc = "loop"
    /\ downloads = <<>>
    /\ attempted = {}

\* where the loop stands after the download at `step` of record pos returned
AfterDownload ==
    IF step = "pdf" /\ with_source
    THEN pos' = pos /\ step' = "src"
    ELSE pos' = pos + 1 /\ step' = "pdf"

\* line 245, or lines 249-252: urlretrieve(url, path) is called for record pos;
\* it writes the file, or it raises and nothing in save_pdf catches it
Download(ok) ==
    /\ spc = "loop"
    /\ pos <= Len(info)
    /\ LET url == IF step = "pdf" THEN info[pos].pdf_url ELSE source_url(info[pos].pdf_url)
           filename == get_default_filename(info[pos], IF step = "pdf" THEN "pdf" ELSE "tar.gz")
       IN  /\ downloads' = Append(downloads, url)
           /\ attempted' = attempted \cup {pos}
           /\ IF ok
              THEN pdf_dir' = pdf_dir \cup {filename} /\ AfterDownload /\ spc' = spc
              ELSE UNCHANGED <<pdf_dir, pos, step>> /\ spc' = "raised"
    /\ UNCHANGED <<info, with_source, run>>

\* the for loop is over (line 253)
PdfDone ==
    /\ spc = "loop"
    /\ pos > Len(info)
    /\ spc' = "done"
    /\ UNCHANGED <<info, with_source, pdf_dir, run, pos, step, downloads, attempted>>

\* save_pdf is invoked a second time on the same records and directory
SecondRun ==
    /\ spc = "done"
    /\ run = 1
    /\ run' = 2
    /\ pos' = 1
    /\ step' = "pdf"
    /\ spc' = "loop"
    /\ downloads' = <<>>
    /\ attempted' = {}
    /\ UNCHANGED <<info, with_source, pdf_dir>>

PdfNext ==
    \/ Download(TRUE) /\ UNCHANGED <<streamVars, scanned, compareVars, cvpVars>>
    \/ Download(FALSE) /\ UNCHANGED <<streamVars, scanned, compareVars, cvpVars>>
    \/ PdfDone /\ UNCHANGED <<streamVars, scanned, compareVars, cvpVars>>
    \/ SecondRun /\ UNCHANGED <<streamVars, scanned, compareVars, cvpVars>>

PdfSpecInit == StreamIdle /\ CompareIdle /\ PdfInit /\ CvpIdle

PdfSpec == PdfSpecInit /\ [][PdfNext]_vars

\* C6: a second invocation of save_pdf on the same destination, after a first
\* one that wrote all files, issues no network request.
C6_SecondRunNoRequest == run = 2 => downloads = <<>>

\* C7: a download failure for one record does not abort the run: when the run
\* is over, a download was attempted for every record of the list.
C7_FailureIsolated == spc \in {"done", "raised"} => attempted = DOMAIN info

(***************************************************************************)
(* CVP: get_url_info and download_pdf.                                     *)
(***************************************************************************)
\* a page holds at most MaxLinks links and at most MaxLinks titles
MaxLinks == 2

\* the characters re.sub("[:\"?/ ]", "_", ...) replaces
UnsafeChars == {":", "\"", "?", "/", " "}

\* re.sub("[:\"?/ ]", "_", str)
Sanitize(str) == [i \in DOMAIN str |-> IF str[i] \in UnsafeChars THEN "_" ELSE str[i]]

\* the index of the last "/" of str, 0 when it has none
LastSlash(str) ==
    IF \E i \in DOMAIN str : str[i] = "/"
    THEN CHOOSE i \in DOMAIN str : str[i] = "/" /\ \A j \in DOMAIN str : str[j] = "/" => j <= i
    ELSE 0

\* os.path.basename(url)
basename(url) == SubSeq(url, LastSlash(url) + 1, Len(url))

\* info_dict[key] = value on a dict kept in insertion order
DictSet(d, key, value) ==
    IF \E i \in DOMAIN d : d[i][1] = key
    THEN [i \in DOMAIN d |-> IF d[i][1] = key THEN <<key, value>> ELSE d[i]]
    ELSE Append(d, <<key, value>>)

\* the for loop of lines 27-28 over the first n names
RECURSIVE BuildDict(_, _, _)
BuildDict(links, names, n) ==
    IF n = 0 THEN <<>>
    ELSE DictSet(BuildDict(links, names, n - 1), links[n], Sanitize(names[n]))

\* get_url_info from the two findall results (lines 24-29)
get_url_info(links, names) ==
    LET names2 == IF Len(links) # Len(names)
                  THEN [i \in DOMAIN links |-> basename(links[i])]
                  ELSE names
    IN  BuildDict(links, names2, Len(names2))

Links == {<<"a", "/", "x", ".pdf">>, <<"b", "/", "x", ".pdf">>,
          <<"a", "/", "y", ".pdf">>, <<"a", "/", "x", ":", "y", ".pdf">>}

Titles == {<<"T">>, <<"T", ":", "U">>, <<"T", "?", "U">>}

CvpInit ==
    /\ link_list \in SeqsUpTo(Links, MaxLinks)
    /\ name_list \in SeqsUpTo(Titles, MaxLinks)
    /\ info_dict = <<>>
    /\ dst \in {{}, {<<"x", ".pdf", ".pdf">>}}
    /\ dst0 = dst
    /\ cpos = 1
    /\ cpc = "new"
    /\ failed = FALSE

\* CVP.__init__
CvpNew ==
    /\ cpc = "new"
    /\ info_dict' = get_url_info(link_list, name_list)
    /\ cpc' = "download"
    /\ UNCHANGED <<link_list, name_list, dst, dst0, cpos, failed>>

\* os.path.join(self.dst, file_name + '.pdf'), as the name of the file in dst
save_path(file_name) == file_name \o <<".pdf">>

\* lines 37-41: the file exists
SkipExisting ==
    /\ cpc = "download"
    /\ cpos <= Len(info_dict)
    /\ save_path(info_dict[cpos][2]) \in dst
    /\ cpos' = cpos + 1
    /\ UNCHANGED <<link_list, name_list, info_dict, dst, dst0, cpc, failed>>

\* lines 42-50: urlretrieve writes the file, or raises and the loop goes on
CvpDownload(ok) ==
    /\ cpc = "download"
    /\ cpos <= Len(info_dict)
    /\ save_path(info_dict[cpos][2]) \notin dst
    /\ dst' = IF ok THEN dst \cup {save_path(info_dict[cpos][2])} ELSE dst
    /\ failed' = (failed \/ ~ok)
    /\ cpos' = cpos + 1
    /\ UNCHANGED <<link_list, name_list, info_dict, dst0, cpc>>

\* line 51
CvpFinished ==
    /\ cpc = "download"
    /\ cpos > Len(info_dict)
    /\ cpc' = "done"
    /\ UNCHANGED <<link_list, name_list, info_dict, dst, dst0, cpos, failed>>

CvpNext ==
    \/ CvpNew /\ UNCHANGED <<streamVars, scanned, compareVars, pdfVars>>
    \/ SkipExisting /\ UNCHANGED <<streamVars, scanned, compareVars, pdfVars>>
    \/ CvpDownload(TRUE) /\ UNCHANGED <<streamVars, scanned, compareVars, pdfVars>>
    \/ CvpDownload(FALSE) /\ UNCHANGED <<streamVars, scanned, compareVars, pdfVars>>
    \/ CvpFinished /\ UNCHANGED <<streamVars, scanned, compareVars, pdfVars>>

CvpSpecInit == StreamIdle /\ CompareIdle /\ PdfIdle /\ CvpInit

CvpSpec == CvpSpecInit /\ [][CvpNext]_vars

\* C9: when the numbers of links and titles differ, each link is named by its
\* sanitized basename, the download targets are as many as the links, and so are
\* the files written when dst was empty and every download succeeded.
\* (Stated for pages whose links are pairwise different.)
C9_FallbackKeepsCount ==
    (/\ cpc # "new"
     /\ Len(link_list) # Len(name_list)
     /\ \A i, j \in DOMAIN link_list : link_list[i] = link_list[j] => i = j) =>
        /\ \A i \in DOMAIN link_list :
              \E j \in DOMAIN info_dict :
                  info_dict[j] = <<link_list[i], Sanitize(basename(link_list[i]))>>
        /\ Len(info_dict) = Len(link_list)
        /\ (cpc = "done" /\ dst0 = {} /\ ~failed) => Cardinality(dst) = Len(link_list)

====
